---- MODULE Spec2Model ----
(***************************************************************************)
(* Model of train_span_scorer.py: the epoch loop of __main__ (training     *)
(* pass, dev scoring, strict and rank-based evaluation, best-recall        *)
(* checkpointing) and the mini-batch loop of train_topic_mention_extractor.*)
(***************************************************************************)
EXTENDS Integers, Sequences, FiniteSets, TLC

\* ---------------------------------------------------------------- bounds
MaxEpochs == 2        \* config['epochs'] ranges over 0..MaxEpochs
MaxSpans == 2         \* dev spans (len(all_scores)) range over 0..MaxSpans
MaxTokens == 5        \* dev_num_of_tokens ranges over 0..MaxTokens
MaxScore == 1         \* a span score ranges over 0..MaxScore
MaxWidth == 3         \* len(width) of one call ranges over 0..MaxWidth, len(labels) over 0..MaxWidth + 1
MaxBatch == 2         \* batch_size of one call ranges over 1..MaxBatch

\* ------------------------------------------------------ program constants
None == -1            \* the None of max_dev = (0, None)

\* a checkpoint file that was never written
NoFile == [model |-> "none", step |-> 0]

VARIABLES
  pc,                 \* position of __main__: loop, train, rank, done, failed
  epochs,             \* config['epochs']
  mention_type,       \* config['mention_type']
  batch_size,         \* config['batch_size']
  training_set,       \* number of spans of each training topic
  dev_set,            \* [labels, num_of_tokens] of the dev split
  epoch,              \* loop variable of line 122
  list_of_topics,     \* shuffled topics still to train in this epoch
  span_repr,          \* parameters of the span embedder
  span_scorer,        \* parameters of the span scorer
  all_scores,         \* dev scores of this epoch
  all_labels,         \* dev labels of this epoch
  dev_num_of_tokens,  \* dev token count of this epoch
  strict_recall,      \* recall of the score > 0 predictions
  kIdx,               \* position in eval_range
  max_dev,            \* (best recall, epoch)
  span_repr_path,     \* content of the span embedder checkpoint file
  span_scorer_path,   \* content of the span scorer checkpoint file
  evalLog,            \* history: every rank-based recall observed so far, with the
                      \*   first epoch that observed it
  trained,            \* history: parameters at the end of each training pass
  scoredWith,         \* history: parameters that produced all_scores
  rankPreds,          \* history: rank_preds of each k evaluated in this epoch
  last,               \* history: recall of the latest rank-based evaluation, files it wrote
  train_passes,       \* history: training passes started
  dev_evals,          \* history: dev evaluations completed
  \* ---- one call of train_topic_mention_extractor
  tpc,                \* position in the function
  start_end,          \* argument: boundary embedding of each span
  continuous_embeddings, \* argument: interior sequence of each span
  width,              \* argument: width of each span
  labels,             \* argument: labels
  t_batch_size,       \* argument: batch_size
  accumulate_loss,    \* number of losses added so far
  idx,                \* list(range(len(width)))
  i,                  \* loop variable of line 27
  batch,              \* indices, batch_start_end, batch_width, batch_continuous_embeddings, batch_labels
  grad,               \* mini-batches whose gradients the .grad buffers hold (0: an earlier call)
  span,               \* output of span_repr: the spans embedded and the parameters used
  scores,             \* output of span_scorer: the spans scored and the parameters used
  loss,               \* output of criterion
  batches,            \* history: every mini-batch formed
  events,             \* history: <<mini-batch, event>> in execution order
  usedGrad,           \* history: the gradients each optimizer step applied
  params0             \* history: the parameters and gradient buffers at the call

mainVars == <<pc, epochs, mention_type, batch_size, training_set, dev_set, epoch,
              list_of_topics, span_repr, span_scorer, all_scores, all_labels,
              dev_num_of_tokens, strict_recall, kIdx, max_dev, span_repr_path,
              span_scorer_path, evalLog, trained, scoredWith, rankPreds, last,
              train_passes, dev_evals>>

topicVars == <<tpc, start_end, continuous_embeddings, width, labels, t_batch_size,
               accumulate_loss, idx, i, batch, grad, span, scores, loss, batches,
               events, usedGrad, params0>>

vars == <<mainVars, topicVars>>

\* the training configurations of the epoch loop: config['batch_size'] and the
\* number of spans of each training topic
TrainingConfigs == {[batch_size |-> 1, topics |-> <<>>],
                    [batch_size |-> 2, topics |-> <<3, 1>>]}

\* ---------------------------------------------------------------- helpers
Scores == 0..MaxScore

Perms(n) == {p \in [1..n -> 1..n] : \A a, b \in 1..n : a # b => p[a] # p[b]}

\* a recall is the pair <<tp, tp + fn>>; 0 is <<0, 1>>
RGt(a, b) == a[1] * b[2] > b[1] * a[2]
RGeq(a, b) == a[1] * b[2] >= b[1] * a[2]
REq(a, b) == a[1] * b[2] = b[1] * a[2]
Zero == <<0, 1>>

\* Evaluation(predictions, labels).get_recall(): tp / (tp + fn), 0 without gold
\* positives
Recall(preds, gold) ==
  LET tp == Cardinality({j \in 1..Len(gold) : preds[j] = 1 /\ gold[j] = 1})
      fn == Cardinality({j \in 1..Len(gold) : preds[j] # 1 /\ gold[j] = 1})
  IN IF tp + fn = 0 THEN Zero ELSE <<tp, tp + fn>>

\* eval_range, in percent
eval_range(mt) == IF mt = "events" THEN <<20, 25, 30>> ELSE <<20, 25, 30, 40>>

TopCountCeil(k, T) == (k * T + 99) \div 100
\* int(k * dev_num_of_tokens): the product truncated, k in percent. For the
\* fractions of eval_range the float product truncates to the same integer as
\* the exact one.
TopCount(k, T) == (k * T) \div 100

TopKArbitrary(sc, n) == {I \in SUBSET (1..Len(sc)) : Cardinality(I) = n}
\* torch.topk(all_scores, n, sorted=False): the index sets it may return
TopK(sc, n) ==
  {I \in SUBSET (1..Len(sc)) :
     /\ Cardinality(I) = n
     /\ \A a \in I : \A b \in (1..Len(sc)) \ I : sc[a] >= sc[b]}

\* rank_preds = zeros(len(all_scores)); rank_preds[i] = 1
RankPreds(n, I) == [j \in 1..n |-> IF j \in I THEN 1 ELSE 0]

\* strict_preds = (all_scores > 0)
StrictPreds(sc) == [j \in 1..Len(sc) |-> IF sc[j] > 0 THEN 1 ELSE 0]

\* number of iterations of range(0, len(width), batch_size)
NumBatches(n, b) == (n + b - 1) \div b

\* one optimizer.step()
Step(params) == [params EXCEPT !.step = @ + 1]

RECURSIVE Steps(_, _)
Steps(params, n) == IF n = 0 THEN params ELSE Steps(Step(params), n - 1)

MoreEpochsUntilSaved(e, E) == e < E /\ max_dev[2] = None
\* epoch in range(config['epochs'])
MoreEpochs(e, E) == e < E

IsNewBestPositive(recall, best) == RGt(recall, Zero)
IsNewBestOrEqual(recall, best) == RGeq(recall, best[1]) /\ RGt(recall, Zero)
\* recall > max_dev[0]
IsNewBest(recall, best) == RGt(recall, best[1])

SavedEmbedderOnly(params, file) == IF params.model = "span_repr" THEN params ELSE file
\* torch.save(model.state_dict(), path): the content of the file afterwards
Saved(params, file) == params

EvalModeUpdates(params) == [params EXCEPT !.step = @ + 1]
\* model.eval() and a forward pass under torch.no_grad(): the parameters afterwards
EvalMode(params) == params

NoBatch == [indices |-> <<>>, start_end |-> <<>>, width |-> <<>>,
            continuous_embeddings |-> <<>>, labels |-> <<>>]

\* no call of train_topic_mention_extractor is being followed
TopicIdle ==
  /\ tpc = "idle"
  /\ start_end = <<>>
  /\ continuous_embeddings = <<>>
  /\ width = <<>>
  /\ labels = <<>>
  /\ t_batch_size = 1
  /\ accumulate_loss = 0
  /\ idx = <<>>
  /\ i = 0
  /\ batch = NoBatch
  /\ grad = {}
  /\ span = <<>>
  /\ scores = <<>>
  /\ loss = <<>>
  /\ batches = <<>>
  /\ events = <<>>
  /\ usedGrad = <<>>
  /\ params0 = <<>>

\* ------------------------------------------------------------------- Init
Init ==
  /\ pc = "loop"
  /\ epochs \in 0..MaxEpochs
  /\ mention_type \in {"events", "entities"}
  /\ \E c \in TrainingConfigs : batch_size = c.batch_size /\ training_set = c.topics
  /\ \E n \in 0..MaxSpans : \E T \in 0..MaxTokens :
       dev_set \in [labels : [1..n -> {0, 1}], num_of_tokens : {T}]
  /\ epoch = 0
  /\ list_of_topics = <<>>
  /\ span_repr = [model |-> "span_repr", step |-> 0]
  /\ span_scorer = [model |-> "span_scorer", step |-> 0]
  /\ all_scores = <<>>
  /\ all_labels = <<>>
  /\ dev_num_of_tokens = 0
  /\ strict_recall = Zero
  /\ kIdx = 0
  /\ max_dev = <<Zero, None>>
  /\ span_repr_path = NoFile
  /\ span_scorer_path = NoFile
  /\ evalLog = {}
  /\ trained = <<>>
  /\ scoredWith = <<>>
  /\ rankPreds = <<>>
  /\ last = [recall |-> Zero, wrote |-> <<FALSE, FALSE>>]
  /\ train_passes = 0
  /\ dev_evals = 0
  /\ TopicIdle

\* ---------------------------------------------------------------- actions
\* lines 122-129: next epoch, shuffle the training topics
EpochStart ==
  /\ UNCHANGED topicVars
  /\ pc = "loop"
  /\ MoreEpochs(epoch, epochs)
  /\ \E p \in Perms(Len(training_set)) : list_of_topics' = p
  /\ pc' = "train"
  /\ train_passes' = train_passes + 1
  /\ UNCHANGED <<epochs, mention_type, batch_size, training_set, dev_set, epoch,
                 span_repr, span_scorer, all_scores, all_labels, dev_num_of_tokens,
                 strict_recall, kIdx, max_dev, span_repr_path, span_scorer_path,
                 evalLog, trained, scoredWith, rankPreds, last, dev_evals>>

\* lines 131-141: train_topic_mention_extractor on the next topic
TrainTopic ==
  /\ UNCHANGED topicVars
  /\ pc = "train"
  /\ list_of_topics # <<>>
  /\ LET n == NumBatches(training_set[Head(list_of_topics)], batch_size)
     IN /\ span_repr' = Steps(span_repr, n)
        /\ span_scorer' = Steps(span_scorer, n)
  /\ list_of_topics' = Tail(list_of_topics)
  /\ UNCHANGED <<pc, epochs, mention_type, batch_size, training_set, dev_set, epoch,
                 all_scores, all_labels, dev_num_of_tokens, strict_recall, kIdx,
                 max_dev, span_repr_path, span_scorer_path, evalLog, trained,
                 scoredWith, rankPreds, last, train_passes, dev_evals>>

\* lines 143-175: score the dev split, stack, strict evaluation. The scores are
\* whatever the two models produce: any value of Scores for each span.
ScoreDev ==
  /\ UNCHANGED topicVars
  /\ pc = "train"
  /\ list_of_topics = <<>>
  /\ trained' = Append(trained, <<span_repr, span_scorer>>)
  /\ span_repr' = EvalMode(span_repr)
  /\ span_scorer' = EvalMode(span_scorer)
  /\ all_labels' = dev_set.labels
  /\ dev_num_of_tokens' = dev_set.num_of_tokens
  /\ UNCHANGED <<epochs, mention_type, batch_size, training_set, dev_set, epoch,
                 list_of_topics, max_dev, span_repr_path, span_scorer_path,
                 evalLog, last, train_passes, dev_evals>>
  /\ IF Len(dev_set.labels) = 0
     THEN \* torch.stack of an empty list raises
          /\ pc' = "failed"
          /\ UNCHANGED <<all_scores, strict_recall, kIdx, scoredWith, rankPreds>>
     ELSE /\ all_scores' \in [1..Len(dev_set.labels) -> Scores]
          /\ scoredWith' = <<span_repr', span_scorer'>>
          /\ strict_recall' = Recall(StrictPreds(all_scores'), dev_set.labels)
          /\ kIdx' = 1
          /\ rankPreds' = <<>>
          /\ pc' = "rank"

\* lines 177-189: one iteration of the rank-based loop
RankEval ==
  /\ UNCHANGED topicVars
  /\ pc = "rank"
  /\ LET range == eval_range(mention_type)
         k == range[kIdx]
         n == TopCount(k, dev_num_of_tokens)
     IN IF n > Len(all_scores)
        THEN \* torch.topk raises: n exceeds the number of scores
             /\ pc' = "failed"
             /\ UNCHANGED <<epoch, kIdx, max_dev, span_repr_path, span_scorer_path,
                            evalLog, rankPreds, last, dev_evals>>
        ELSE \E I \in TopK(all_scores, n) :
             LET rank_preds == RankPreds(Len(all_scores), I)
                 recall == Recall(rank_preds, all_labels)
             IN /\ IF IsNewBest(recall, max_dev)
                   THEN /\ max_dev' = <<recall, epoch>>
                        /\ span_repr_path' = Saved(span_repr, span_repr_path)
                        /\ span_scorer_path' = Saved(span_scorer, span_scorer_path)
                        /\ last' = [recall |-> recall, wrote |-> <<TRUE, TRUE>>]
                   ELSE /\ UNCHANGED <<max_dev, span_repr_path, span_scorer_path>>
                        /\ last' = [recall |-> recall, wrote |-> <<FALSE, FALSE>>]
                /\ evalLog' = IF \E r \in evalLog : r.recall = recall
                              THEN evalLog
                              ELSE evalLog \cup {[epoch |-> epoch, recall |-> recall]}
                /\ rankPreds' = Append(rankPreds, rank_preds)
                /\ IF kIdx < Len(range)
                   THEN /\ kIdx' = kIdx + 1
                        /\ UNCHANGED <<pc, epoch, dev_evals>>
                   ELSE /\ kIdx' = 0
                        /\ epoch' = epoch + 1
                        /\ dev_evals' = dev_evals + 1
                        /\ pc' = "loop"
  /\ UNCHANGED <<epochs, mention_type, batch_size, training_set, dev_set,
                 list_of_topics, span_repr, span_scorer, all_scores, all_labels,
                 dev_num_of_tokens, strict_recall, trained, scoredWith, train_passes>>

\* line 193: the final 'Best Performance' log
FinalLog ==
  /\ UNCHANGED topicVars
  /\ pc = "loop"
  /\ ~MoreEpochs(epoch, epochs)
  /\ pc' = "done"
  /\ UNCHANGED <<epochs, mention_type, batch_size, training_set, dev_set, epoch,
                 list_of_topics, span_repr, span_scorer, all_scores, all_labels,
                 dev_num_of_tokens, strict_recall, kIdx, max_dev, span_repr_path,
                 span_scorer_path, evalLog, trained, scoredWith, rankPreds, last,
                 train_passes, dev_evals>>

Next == EpochStart \/ TrainTopic \/ ScoreDev \/ RankEval \/ FinalLog

Spec == Init /\ [][Next]_vars

\* one process, sequential control flow: a step that can be taken is taken
FairSpec == Spec /\ WF_vars(Next)

\* ------------------------------- train_topic_mention_extractor, step by step
Min(a, b) == IF a < b THEN a ELSE b

PySliceFromStart(s, lo, hi) == SubSeq(s, 1, Min(hi - lo, Len(s)))
\* s[lo:hi] of a Python sequence, 0 <= lo <= hi
PySlice(s, lo, hi) == SubSeq(s, lo + 1, Min(hi, Len(s)))

\* s[indices]: the elements of s at the (0-based) positions listed
Gather(s, indices) == [j \in 1..Len(indices) |-> s[indices[j] + 1]]

\* criterion(scores.squeeze(1), batch_labels) is defined for equal sizes only
LossDefined(nScores, nLabels) == nScores = nLabels

\* the mini-batch of the current iteration, counted from 1
BatchNo == i \div t_batch_size + 1

\* the state at a call: any span count, label count and batch size, the gradient
\* buffers empty or still holding the gradients of an earlier call
TopicInit ==
  /\ tpc = "call"
  /\ \E n \in 0..MaxWidth :
       /\ start_end = [j \in 1..n |-> <<"start_end", j - 1>>]
       /\ continuous_embeddings = [j \in 1..n |-> <<"continuous", j - 1>>]
       /\ width = [j \in 1..n |-> <<"width", j - 1>>]
  /\ \E l \in 0..(MaxWidth + 1) : labels = [j \in 1..l |-> <<"label", j - 1>>]
  /\ t_batch_size \in 1..MaxBatch
  /\ accumulate_loss = 0
  /\ idx = <<>>
  /\ i = 0
  /\ batch = NoBatch
  /\ grad \in {{}, {0}}
  /\ span = <<>>
  /\ scores = <<>>
  /\ loss = <<>>
  /\ batches = <<>>
  /\ events = <<>>
  /\ usedGrad = <<>>
  /\ span_repr = [model |-> "span_repr", step |-> 0]
  /\ span_scorer = [model |-> "span_scorer", step |-> 0]
  /\ params0 = <<span_repr, span_scorer, grad>>
  /\ pc = "idle"
  /\ epochs = 0
  /\ mention_type = "events"
  /\ batch_size = 1
  /\ training_set = <<>>
  /\ dev_set = [labels |-> <<>>, num_of_tokens |-> 0]
  /\ epoch = 0
  /\ list_of_topics = <<>>
  /\ all_scores = <<>>
  /\ all_labels = <<>>
  /\ dev_num_of_tokens = 0
  /\ strict_recall = Zero
  /\ kIdx = 0
  /\ max_dev = <<Zero, None>>
  /\ span_repr_path = NoFile
  /\ span_scorer_path = NoFile
  /\ evalLog = {}
  /\ trained = <<>>
  /\ scoredWith = <<>>
  /\ rankPreds = <<>>
  /\ last = [recall |-> Zero, wrote |-> <<FALSE, FALSE>>]
  /\ train_passes = 0
  /\ dev_evals = 0

mainRest == <<pc, epochs, mention_type, batch_size, training_set, dev_set, epoch,
              list_of_topics, all_scores, all_labels, dev_num_of_tokens,
              strict_recall, kIdx, max_dev, span_repr_path, span_scorer_path,
              evalLog, trained, scoredWith, rankPreds, last, train_passes, dev_evals>>

topicArgs == <<start_end, continuous_embeddings, width, labels, t_batch_size, params0>>

\* lines 25-26
Begin ==
  /\ tpc = "call"
  /\ accumulate_loss' = 0
  /\ idx' = [j \in 1..Len(width) |-> j - 1]
  /\ i' = 0
  /\ tpc' = "for"
  /\ UNCHANGED <<mainRest, topicArgs, span_repr, span_scorer, batch, grad, span,
                 scores, loss, batches, events, usedGrad>>

\* lines 27-32: the next i of range(0, len(width), batch_size) and its slices
FormBatch ==
  /\ tpc = "for"
  /\ i < Len(width)
  /\ LET indices == PySlice(idx, i, i + t_batch_size)
         b == [indices |-> indices,
               start_end |-> Gather(start_end, indices),
               width |-> Gather(width, indices),
               continuous_embeddings |-> Gather(continuous_embeddings, indices),
               labels |-> PySlice(labels, i, i + t_batch_size)]
     IN /\ batch' = b
        /\ batches' = Append(batches, b)
  /\ tpc' = "zero_grad"
  /\ UNCHANGED <<mainRest, topicArgs, span_repr, span_scorer, accumulate_loss, idx, i,
                 grad, span, scores, loss, events, usedGrad>>

ZeroGradKeeps ==
  /\ tpc = "zero_grad"
  /\ events' = Append(events, <<BatchNo, "zero_grad">>)
  /\ tpc' = "embed"
  /\ UNCHANGED <<mainRest, topicArgs, span_repr, span_scorer, accumulate_loss, idx, i,
                 batch, grad, span, scores, loss, batches, usedGrad>>
\* line 33: optimizer.zero_grad()
ZeroGrad ==
  /\ tpc = "zero_grad"
  /\ grad' = {}
  /\ events' = Append(events, <<BatchNo, "zero_grad">>)
  /\ tpc' = "embed"
  /\ UNCHANGED <<mainRest, topicArgs, span_repr, span_scorer, accumulate_loss, idx, i,
                 batch, span, scores, loss, batches, usedGrad>>

\* line 34: span = span_repr(batch_start_end, batch_continuous_embeddings, batch_width)
Embed ==
  /\ tpc = "embed"
  /\ span' = [of |-> batch.indices, by |-> <<span_repr>>]
  /\ events' = Append(events, <<BatchNo, "embed">>)
  /\ tpc' = "score"
  /\ UNCHANGED <<mainRest, topicArgs, span_repr, span_scorer, accumulate_loss, idx, i,
                 batch, grad, scores, loss, batches, usedGrad>>

\* line 35: scores = span_scorer(span)
Score ==
  /\ tpc = "score"
  /\ scores' = [of |-> span.of, by |-> Append(span.by, span_scorer)]
  /\ events' = Append(events, <<BatchNo, "score">>)
  /\ tpc' = "loss"
  /\ UNCHANGED <<mainRest, topicArgs, span_repr, span_scorer, accumulate_loss, idx, i,
                 batch, grad, span, loss, batches, usedGrad>>

\* line 36: loss = criterion(scores.squeeze(1), batch_labels)
Loss ==
  /\ tpc = "loss"
  /\ IF LossDefined(Len(scores.of), Len(batch.labels))
     THEN /\ loss' = [scores |-> scores, labels |-> batch.labels]
          /\ events' = Append(events, <<BatchNo, "loss">>)
          /\ tpc' = "backward"
     ELSE /\ tpc' = "raised"
          /\ UNCHANGED <<loss, events>>
  /\ UNCHANGED <<mainRest, topicArgs, span_repr, span_scorer, accumulate_loss, idx, i,
                 batch, grad, span, scores, batches, usedGrad>>

\* line 37: loss.backward()
Backward ==
  /\ tpc = "backward"
  /\ grad' = grad \cup {BatchNo}
  /\ events' = Append(events, <<BatchNo, "backward">>)
  /\ tpc' = "item"
  /\ UNCHANGED <<mainRest, topicArgs, span_repr, span_scorer, accumulate_loss, idx, i,
                 batch, span, scores, loss, batches, usedGrad>>

\* line 38: accumulate_loss += loss.item()
Accumulate ==
  /\ tpc = "item"
  /\ accumulate_loss' = accumulate_loss + 1
  /\ tpc' = "step"
  /\ UNCHANGED <<mainRest, topicArgs, span_repr, span_scorer, idx, i, batch, grad,
                 span, scores, loss, batches, events, usedGrad>>

\* line 39: optimizer.step(), then back to the loop header
OptimizerStep ==
  /\ tpc = "step"
  /\ span_repr' = Step(span_repr)
  /\ span_scorer' = Step(span_scorer)
  /\ usedGrad' = Append(usedGrad, grad)
  /\ events' = Append(events, <<BatchNo, "step">>)
  /\ i' = i + t_batch_size
  /\ tpc' = "for"
  /\ UNCHANGED <<mainRest, topicArgs, accumulate_loss, idx, batch, grad, span, scores,
                 loss, batches>>

\* line 40: the range is exhausted, return accumulate_loss
Return ==
  /\ tpc = "for"
  /\ i >= Len(width)
  /\ tpc' = "returned"
  /\ UNCHANGED <<mainRest, topicArgs, span_repr, span_scorer, accumulate_loss, idx, i,
                 batch, grad, span, scores, loss, batches, events, usedGrad>>

TopicNext == Begin \/ FormBatch \/ ZeroGrad \/ Embed \/ Score \/ Loss \/ Backward
               \/ Accumulate \/ OptimizerStep \/ Return

SpecTopic == TopicInit /\ [][TopicNext]_vars

\* ------------------------------------------------------- claims: helpers
Ones(preds) == {j \in 1..Len(preds) : preds[j] = 1}

\* Python's round(k * T): to the nearest integer, a half to the even one
Round(k, T) ==
  LET q == (k * T) \div 100
      r == (k * T) % 100
  IN IF r > 50 \/ (r = 50 /\ q % 2 = 1) THEN q + 1 ELSE q

\* a step of the rank-based loop that evaluated one (epoch, k) pair
EvalStep == pc = "rank" /\ pc' # "failed"

\* a step of the dev evaluation phase (lines 148-189)
EvalPhaseStep == pc = "rank" \/ (pc = "train" /\ list_of_topics = <<>>)

\* every k of eval_range selects no more spans than the dev split has, and the
\* dev split has a span
DevOK ==
  /\ Len(dev_set.labels) > 0
  /\ \A j \in 1..Len(eval_range(mention_type)) :
       TopCount(eval_range(mention_type)[j], dev_set.num_of_tokens) <= Len(dev_set.labels)

\* the highest recall of the history, 0 when nothing was evaluated
BestRecall ==
  IF evalLog = {} THEN Zero
  ELSE (CHOOSE r \in evalLog : \A q \in evalLog : RGeq(r.recall, q.recall)).recall

\* the first epoch that observed recall r
FirstEpoch(r) == (CHOOSE q \in evalLog : REq(q.recall, r)).epoch

\* ------------------------------------------------------------------- C1
\* C1 as stated: max_dev[0] never decreases, and an (epoch, k) evaluation writes
\* the two checkpoint files if and only if its recall is strictly higher than
\* the recall of every previously evaluated (epoch, k) pair.
C1_Original ==
  [][ /\ RGeq(max_dev'[1], max_dev[1])
      /\ EvalStep =>
           ((last'.wrote[1] /\ last'.wrote[2])
              <=> \A r \in evalLog : RGt(last'.recall, r.recall)) ]_vars

\* C1 amended: max_dev[0] never decreases, and an (epoch, k) evaluation writes
\* the two checkpoint files if and only if its recall is strictly higher than 0
\* and than the recall of every previously evaluated (epoch, k) pair; no other
\* step touches the files.
C1_Monotone ==
  [][ /\ RGeq(max_dev'[1], max_dev[1])
      /\ EvalStep =>
           ((last'.wrote[1] /\ last'.wrote[2])
              <=> (/\ RGt(last'.recall, Zero)
                   /\ \A r \in evalLog : RGt(last'.recall, r.recall)))
      /\ (~EvalStep \/ ~last'.wrote[1]) =>
           UNCHANGED <<span_repr_path, span_scorer_path, max_dev>> ]_vars

\* the evaluations of epoch 0 observed recall 0 and wrote nothing, an evaluation
\* of epoch 1 observed a higher recall and wrote the files, and a later evaluation
\* with the same recall left them alone
C1_Witness ==
  /\ max_dev[2] = 1
  /\ \E r \in evalLog : r.epoch = 0 /\ REq(r.recall, Zero)
  /\ pc = "rank"
  /\ ~last.wrote[1]
  /\ REq(last.recall, max_dev[1])
  /\ span_repr_path.step > 0

Distinct(sc) == \A a, b \in 1..Len(sc) : a # b => sc[a] # sc[b]

C4_Consistent ==
  /\ last.wrote[1] = last.wrote[2]
  /\ \/ /\ span_repr_path = NoFile
        /\ span_scorer_path = NoFile
        /\ max_dev = <<Zero, None>>
     \/ /\ max_dev[2] \in 0..(Len(trained) - 1)
        /\ span_repr_path = trained[max_dev[2] + 1][1]
        /\ span_scorer_path = trained[max_dev[2] + 1][2]
        /\ \E r \in evalLog : r.recall = max_dev[1] /\ r.epoch <= max_dev[2]
        /\ FirstEpoch(max_dev[1]) = max_dev[2]

\* the checkpoint of epoch 0 is still the best while epoch 1 has trained further
C4_Witness ==
  /\ span_repr_path # NoFile
  /\ max_dev[2] = 0
  /\ epoch = 1
  /\ pc = "rank"
  /\ span_repr # span_repr_path
  /\ span_scorer # span_scorer_path

Measure ==
  LET W == Len(training_set) + 7 IN
  CASE pc \in {"done", "failed"} -> 0
    [] pc = "loop" -> 1 + (epochs - epoch) * W
    [] pc = "train" -> 1 + (epochs - epoch - 1) * W + Len(list_of_topics) + 6
    [] pc = "rank" -> 1 + (epochs - epoch - 1) * W
                        + Len(eval_range(mention_type)) - kIdx + 1

C6_Rejects == Len(labels) # Len(width) => tpc # "returned"

\* ------------------------------------------------------------------- C7
\* C7: the mini-batches are formed in natural order, each span index is in exactly
\* one of them, every one but possibly the last has batch_size spans, a call that
\* returns formed ceil(N / batch_size) of them, and the j-th boundary embedding,
\* interior sequence, width and label of a mini-batch belong to its j-th index.
C7_Partition ==
  /\ \A b \in 1..Len(batches) :
       LET m == batches[b] IN
       /\ Len(m.indices) >= 1
       /\ Len(m.indices) <= t_batch_size
       /\ b * t_batch_size <= Len(width) => Len(m.indices) = t_batch_size
       /\ Len(m.start_end) = Len(m.indices)
       /\ Len(m.width) = Len(m.indices)
       /\ Len(m.continuous_embeddings) = Len(m.indices)
       /\ Len(labels) = Len(width) => Len(m.labels) = Len(m.indices)
       /\ \A j \in 1..Len(m.indices) :
            /\ m.indices[j] = (b - 1) * t_batch_size + j - 1
            /\ m.start_end[j] = <<"start_end", m.indices[j]>>
            /\ m.width[j] = <<"width", m.indices[j]>>
            /\ m.continuous_embeddings[j] = <<"continuous", m.indices[j]>>
            /\ j <= Len(m.labels) => m.labels[j] = <<"label", m.indices[j]>>
  /\ tpc = "returned" =>
       /\ Len(batches) * t_batch_size >= Len(width)
       /\ Len(batches) > 0 => (Len(batches) - 1) * t_batch_size < Len(width)
       /\ \A x \in 0..(Len(width) - 1) :
            Cardinality({<<b, j>> \in (1..Len(batches)) \X (1..t_batch_size) :
                           j <= Len(batches[b].indices) /\ batches[b].indices[j] = x}) = 1

\* a call that returned after a full mini-batch and a shorter last one
C7_Witness ==
  /\ tpc = "returned"
  /\ Len(labels) = Len(width)
  /\ Len(batches) = 2
  /\ Len(batches[1].indices) = 2
  /\ Len(batches[2].indices) = 1
  /\ batches[2].labels = <<<<"label", 2>>>>

\* ------------------------------------------------------------------- C8
Order == <<"zero_grad", "embed", "score", "loss", "backward", "step">>

\* C8: in every mini-batch the events are clear-gradients, embed, score, loss,
\* backward, optimizer-step in this order, one optimizer step per mini-batch;
\* the forward pass of a mini-batch reads the parameters as the steps of the
\* mini-batches before it left them, before its own step changes them, and each
\* step applies the gradients of its own mini-batch only.
C8_Order ==
  /\ \A p \in 1..Len(events) :
       events[p] = <<(p - 1) \div Len(Order) + 1, Order[((p - 1) % Len(Order)) + 1]>>
  /\ \A b \in 1..Len(usedGrad) : usedGrad[b] = {b}
  /\ span_repr.step = params0[1].step + Len(usedGrad)
  /\ span_scorer.step = params0[2].step + Len(usedGrad)
  /\ tpc \in {"call", "for", "returned"} => Len(usedGrad) = Len(batches)
  /\ tpc \in {"zero_grad", "embed", "score", "loss", "backward", "item", "step", "raised"}
       => Len(usedGrad) = Len(batches) - 1
  /\ tpc \in {"score", "loss", "backward", "item", "step"}
       => span.by[1] = span_repr /\ span.of = batch.indices
  /\ tpc \in {"loss", "backward", "item", "step"}
       => scores.by = <<span_repr, span_scorer>> /\ scores.of = batch.indices
  /\ tpc \in {"backward", "item", "step"} => loss.scores = scores
  /\ tpc \in {"item", "step"} => grad = {BatchNo}
  /\ (tpc = "for" /\ usedGrad # <<>>)
       => scores.by = <<[span_repr EXCEPT !.step = @ - 1],
                        [span_scorer EXCEPT !.step = @ - 1]>>

\* the optimizer step of the second mini-batch of a call that started with the
\* gradients of an earlier call in the buffers
C8_Witness ==
  /\ tpc = "step"
  /\ BatchNo = 2
  /\ params0[3] = {0}
  /\ grad = {2}
  /\ span_repr.step = 1

\* ------------------------------------------------------------------- C9
\* C9: the parameters change only in the training pass; the dev evaluation phase
\* leaves both parameter sets unchanged, and a checkpoint written in an epoch
\* holds the parameters that produced the scores evaluated in that epoch.
C9_Frame ==
  [][ /\ EvalPhaseStep => span_repr' = span_repr /\ span_scorer' = span_scorer
      /\ (span_repr' # span_repr \/ span_scorer' # span_scorer)
           => pc = "train" /\ list_of_topics # <<>>
      /\ (EvalStep /\ last'.wrote[1])
           => span_repr_path' = scoredWith[1] /\ span_scorer_path' = scoredWith[2] ]_vars

\* a checkpoint written in the second epoch, after training changed the parameters
C9_Witness ==
  /\ pc = "rank"
  /\ last.wrote[1]
  /\ epoch = 1
  /\ span_repr_path = scoredWith[1]
  /\ span_repr_path.step > 1

\* ------------------------------------------------------------------ C10
\* C10: at the final log max_dev is (r, e), r the highest rank-based recall of
\* the run and e the first epoch that attained it; if no rank-based recall
\* exceeded 0 it is (0, None) and no file was written. The strict-threshold
\* recall plays no part.
C10_Final ==
  pc = "done" =>
    /\ REq(max_dev[1], BestRecall)
    /\ IF RGt(BestRecall, Zero)
       THEN /\ max_dev[2] = FirstEpoch(BestRecall)
            /\ span_repr_path # NoFile
            /\ span_scorer_path # NoFile
       ELSE /\ max_dev = <<Zero, None>>
            /\ span_repr_path = NoFile
            /\ span_scorer_path = NoFile

\* the best recall was attained in both epochs, the first one is logged, and
\* the strict-threshold recall was higher than every rank-based one
C10_Witness ==
  /\ pc = "done"
  /\ epochs = 2
  /\ max_dev[2] = 0
  /\ RGt(strict_recall, max_dev[1])
  /\ last.recall = max_dev[1]
  /\ ~last.wrote[1]
====
